---------------------------- MODULE Spec2Model ----------------------------
(***************************************************************************)
(* Model of the control code of make-app-container.py: controlcode() and   *)
(* the functions it calls (parse_args, getdb, is_running, start_xephyr,    *)
(* start_container, run_cmd, stop_xephyr, stop_container).                 *)
(*                                                                         *)
(* Every invocation of the generated control script is a separate OS       *)
(* process.  The processes of one container name share                     *)
(*   - the sqlite lock file opened by getdb (variable lock),               *)
(*   - the machine state reported by machinectl (variable runtime),        *)
(*   - /tmp/.X11-unix (variables link and xlive).                          *)
(* Session s is one such process; pc[s] is the place in controlcode the    *)
(* process is at.  The steps are the statements at which the process reads *)
(* or writes the shared state; the processes interleave between them.      *)
(***************************************************************************)
EXTENDS Integers, Sequences, FiniteSets, TLC

(* ------------------------------ bounds --------------------------------- *)
\* number of invocations of the control script
NumSessions == 2

Sessions == 1..NumSessions

\* the exit codes the inner commands end with
ExitCodes == {0, 3}

\* the command lines of the invocations: the directive (++start, ++stop, or
\* neither: run the command) and the ++network value ("unset": no ++network)
CommandLines ==
    { <<"none", "unset">>, <<"none", "off">>, <<"none", "on">>,
      <<"start", "unset">>, <<"stop", "unset">> }

\* the configurations of the generated script that the invocations share
Configs ==
    { [guiPrivate |-> FALSE, wm |-> FALSE, network |-> "on"],
      [guiPrivate |-> TRUE, wm |-> TRUE, network |-> "nat"] }

(* ------------------------- program constants --------------------------- *)
\* the values parse_args accepts after ++network
OverrideNetworks == {"on", "off", "separate", "nat"}
\* the returncode of the class made in the KeyboardInterrupt handler
InterruptCode == 2
\* first candidate display of start_xephyr, 10 + (digest[-1] % 89), for a
\* container name whose digest byte is a multiple of 89
BaseDisplay == 10
\* the value of proc and of Popen.returncode that stands for Python's None
None == -1

VARIABLES
    config,       \* the script's config dict: gui-private, window manager, network
    pc,           \* pc[s]: position of process s in controlcode
    only,         \* args["only"]: "none" (run command), "start", "stop"
    net,          \* config["network"] of process s after parse_args
    lock,         \* lock[s]: sqlite lock process s holds on the .lock file
    observed,     \* result of the is_running call at controlcode line 594
    nspawn,       \* the Popen of systemd-nspawn made by start_container
    xephyr,       \* the Popen of Xephyr made by start_xephyr
    xnum,         \* num chosen by start_xephyr
    shutdown,     \* the local variable shutdown of controlcode
    proc,         \* the local variable proc of controlcode: its returncode, or None
    outcome,      \* how run_cmd ended: "returned", "interrupted", "raised"
    exitStatus,   \* exit status of the process, -1 while it runs
    log,          \* log[s]: external requests of process s in its current phase
    runtime,      \* machine state of the container: "off", "starting", "running"
    startedNet,   \* network mode the machine was started with
    link,         \* target number of /tmp/.X11-unix/mac-<name>, 0 when absent
    xlive,        \* display numbers with a live X server (socket and lock file)
    shutdowns     \* stop requests of run-command sessions since the last start

\* the tool run (__main__, create, makescript, genscript)
VARIABLES
    options,      \* the argparse namespace
    toolpc        \* position of the tool run

\* one call of start_container, and of do_apt_stuff around it
VARIABLES
    for_update,   \* the parameter for_update of start_container
    environ,      \* what the call finds on the host: pulse directory, bus address, interfaces
    spc,          \* position of the call
    cmd,          \* the directives appended to the systemd-nspawn command line
    requests      \* external requests of the call, in order

\* one private display: start_xephyr, the X server's life, stop_xephyr
VARIABLES
    digest,       \* last byte of the SHA-1 digest of the container name
    sockets,      \* numbers n for which /tmp/.X11-unix/X<n> exists
    num,          \* the local variable num of start_xephyr
    xpc,          \* position in start_xephyr / stop_xephyr
    symlink,      \* number /tmp/.X11-unix/mac-<name> points at, 0 when absent
    xserver,      \* the X server of display num: "none", "live", "killed", "gone"
    calls,        \* completed calls of stop_xephyr
    signals,      \* SIGTERMs sent by stop_xephyr
    raised,       \* exception that left stop_xephyr, "none" if none
    stopnum       \* the local variable num of stop_xephyr, 0 outside a call

\* one apt-update invocation (controlcode lines 590-591, do_apt_stuff) beside
\* the sessions
VARIABLES
    upc,          \* position of the apt-update process
    unspawn,      \* the Popen of systemd-nspawn made by its start_container
    ulog,         \* external requests of the apt-update process, in order
    ustatus       \* its exit status, -1 while it runs

controlVars == <<pc, only, net, lock, observed, nspawn, xephyr, xnum, shutdown,
                 proc, outcome, exitStatus, log, runtime, startedNet, link, xlive,
                 shutdowns>>
toolVars == <<options, toolpc>>
startVars == <<for_update, environ, spc, cmd, requests>>
displayVars == <<digest, sockets, num, xpc, symlink, xserver, calls, signals, raised,
                 stopnum>>
updateVars == <<upc, unspawn, ulog, ustatus>>
detailVars == <<toolVars, startVars, displayVars, updateVars>>

vars == <<config, controlVars, detailVars>>

\* the values of a group of variables while another specification runs
ControlUnused ==
    /\ pc = [s \in Sessions |-> "idle"]
    /\ only = [s \in Sessions |-> "none"]
    /\ net = [s \in Sessions |-> "on"]
    /\ lock = [s \in Sessions |-> "none"]
    /\ observed = [s \in Sessions |-> "unknown"]
    /\ nspawn = [s \in Sessions |-> "none"]
    /\ xephyr = [s \in Sessions |-> "none"]
    /\ xnum = [s \in Sessions |-> 0]
    /\ shutdown = [s \in Sessions |-> "unset"]
    /\ proc = [s \in Sessions |-> -1]
    /\ outcome = [s \in Sessions |-> "none"]
    /\ exitStatus = [s \in Sessions |-> -1]
    /\ log = [s \in Sessions |-> <<>>]
    /\ runtime = "off"
    /\ startedNet = "none"
    /\ link = 0
    /\ xlive = {}
    /\ shutdowns = 0

ToolUnused ==
    /\ options = [sub |-> "none"]
    /\ toolpc = "unused"

StartUnused ==
    /\ for_update = FALSE
    /\ environ = [pulse |-> FALSE]
    /\ spc = "unused"
    /\ cmd = <<>>
    /\ requests = <<>>

DisplayUnused ==
    /\ digest = 0
    /\ sockets = {}
    /\ num = 0
    /\ xpc = "unused"
    /\ symlink = 0
    /\ xserver = "none"
    /\ calls = 0
    /\ signals = 0
    /\ raised = "none"
    /\ stopnum = 0

UpdateUnused ==
    /\ upc = "unused"
    /\ unspawn = "none"
    /\ ulog = <<>>
    /\ ustatus = -1

Append1(s, what) == [log EXCEPT ![s] = Append(@, what)]

Issued(s, what) == \E i \in 1..Len(log[s]) : log[s][i] = what

IndexOf(s, what) == CHOOSE i \in 1..Len(log[s]) : log[s][i] = what

(* machinectl show --property State --value: is_running() *)
is_running == runtime = "running"

(* sys.exit(n) with an integer: the exit status is its low byte *)
SysExit(n) == n % 256

(* the process exits: its sqlite connection is closed with it, and its
   variables and Popen objects are gone.  only and outcome stay, as the
   record of what the invocation was asked and how its command ended *)
ProcessExit(s, place, status) ==
    /\ pc' = [pc EXCEPT ![s] = place]
    /\ exitStatus' = [exitStatus EXCEPT ![s] = status]
    /\ lock' = [lock EXCEPT ![s] = "none"]
    /\ net' = [net EXCEPT ![s] = config.network]
    /\ observed' = [observed EXCEPT ![s] = "unknown"]
    /\ shutdown' = [shutdown EXCEPT ![s] = "unset"]
    /\ proc' = [proc EXCEPT ![s] = None]
    /\ nspawn' = [nspawn EXCEPT ![s] = "none"]
    /\ xephyr' = [xephyr EXCEPT ![s] = "none"]
    /\ xnum' = [xnum EXCEPT ![s] = 0]
    /\ log' = [log EXCEPT ![s] = <<>>]

ControlInit ==
    /\ config \in Configs
    /\ pc = [s \in Sessions |-> "idle"]
    /\ only = [s \in Sessions |-> "none"]
    /\ net = [s \in Sessions |-> config.network]
    /\ lock = [s \in Sessions |-> "none"]
    /\ observed = [s \in Sessions |-> "unknown"]
    /\ nspawn = [s \in Sessions |-> "none"]
    /\ xephyr = [s \in Sessions |-> "none"]
    /\ xnum = [s \in Sessions |-> 0]
    /\ shutdown = [s \in Sessions |-> "unset"]
    /\ proc = [s \in Sessions |-> None]
    /\ outcome = [s \in Sessions |-> "none"]
    /\ exitStatus = [s \in Sessions |-> -1]
    /\ log = [s \in Sessions |-> <<>>]
    /\ runtime = "off"
    /\ startedNet = "none"
    /\ link = 0
    /\ xlive = {}
    /\ shutdowns = 0

Init == ControlInit /\ ToolUnused /\ StartUnused /\ DisplayUnused /\ UpdateUnused

(* ---------------------------- parse_args ------------------------------- *)
\* a new process: the control tokens ++start / ++stop / ++network <value>
parse_args(s, directive, override) ==
    /\ pc[s] = "idle"
    /\ only' = [only EXCEPT ![s] = directive]
    /\ net' = [net EXCEPT ![s] = IF override = "unset" THEN config.network ELSE override]
    /\ pc' = [pc EXCEPT ![s] = "getdb"]
    /\ UNCHANGED <<detailVars, config, lock, observed, nspawn, xephyr, xnum, shutdown, proc, outcome,
                   exitStatus, log, runtime, startedNet, link, xlive, shutdowns>>

(* ------------------------------- getdb --------------------------------- *)
\* "begin" then a select: sqlite takes a SHARED lock on the file, which it
\* refuses (database is locked, once the busy timeout has passed) while
\* another connection holds the EXCLUSIVE lock
SharedGranted(s) == \A t \in Sessions \ {s} : lock[t] # "exclusive"

getdb(s) ==
    /\ pc[s] = "getdb"
    /\ IF SharedGranted(s)
          THEN /\ lock' = [lock EXCEPT ![s] = "shared"]
               /\ pc' = [pc EXCEPT ![s] = "is_running"]
               /\ UNCHANGED <<exitStatus, net, observed, shutdown, proc, nspawn, xephyr, xnum, log>>
          ELSE ProcessExit(s, "crashed", 1)
    /\ UNCHANGED <<detailVars, config, only, outcome, runtime, startedNet, link, xlive, shutdowns>>

(* ------------------------ controlcode, line 594 ------------------------ *)
\* AfterStart without the return of line 600
AfterStart_NoReturn(s) ==
    CASE only[s] = "none" -> "run_cmd"
      [] OTHER            -> "end"

\* where controlcode continues once the container is running
AfterStart(s) ==
    CASE only[s] = "start" -> "return"
      [] only[s] = "stop"  -> "end"
      [] OTHER             -> "run_cmd"

\* StartNeeded without the test of is_running()
StartNeeded_Always(running) == TRUE

\* line 594: start_container is called when is_running() returned False
StartNeeded(running) == ~running

check_running(s) ==
    /\ pc[s] = "is_running"
    /\ observed' = [observed EXCEPT ![s] = IF is_running THEN "running" ELSE "not_running"]
    /\ pc' = [pc EXCEPT ![s] =
                IF StartNeeded(is_running)
                   THEN (IF config.guiPrivate THEN "start_xephyr" ELSE "nspawn")
                   ELSE AfterStart(s)]
    /\ UNCHANGED <<detailVars, config, only, net, lock, nspawn, xephyr, xnum, shutdown, proc, outcome,
                   exitStatus, log, runtime, startedNet, link, xlive, shutdowns>>

\* what the process no longer reads is dropped: config["network"] and the
\* number of the display once systemd-nspawn has its arguments, the result of
\* is_running() and the Popen objects once the start phase is over (a Xephyr
\* that has not come up yet stays pending)
DropStartRecord(s) ==
    /\ net' = [net EXCEPT ![s] = config.network]
    /\ observed' = [observed EXCEPT ![s] = "unknown"]
    /\ nspawn' = [nspawn EXCEPT ![s] = "none"]
    /\ xephyr' = [xephyr EXCEPT ![s] = IF @ = "launched" THEN @ ELSE "none"]
    /\ xnum' = [xnum EXCEPT ![s] = IF xephyr[s] = "launched" THEN @ ELSE 0]

(* ---------------------------- start_xephyr ----------------------------- *)
\* "find a free number": the first number from the hash candidate upwards
\* for which /tmp/.X11-unix/X<num> does not exist
FreeDisplay(occupied) ==
    CHOOSE n \in BaseDisplay..(BaseDisplay + Cardinality(occupied)) :
        /\ n \notin occupied
        /\ \A m \in BaseDisplay..(n - 1) : m \in occupied

\* lines 376-402: remove a stale symlink, choose the number, launch Xephyr
start_xephyr(s) ==
    /\ pc[s] = "start_xephyr"
    /\ link' = 0
    /\ xnum' = [xnum EXCEPT ![s] = FreeDisplay(xlive)]
    /\ xephyr' = [xephyr EXCEPT ![s] = "launched"]
    /\ log' = Append1(s, "xephyr")
    /\ pc' = [pc EXCEPT ![s] = "xephyr_wait"]
    /\ UNCHANGED <<detailVars, config, only, net, lock, observed, nspawn, shutdown, proc, outcome,
                   exitStatus, runtime, startedNet, xlive, shutdowns>>

\* the X server creates its socket and lock file, unless the display is taken
XephyrReady(s) ==
    /\ xephyr[s] = "launched"
    /\ xnum[s] \notin xlive
    /\ xlive' = xlive \cup {xnum[s]}
    /\ xephyr' = [xephyr EXCEPT ![s] = "up"]
    /\ UNCHANGED <<detailVars, config, pc, only, net, lock, observed, nspawn, xnum, shutdown, proc,
                   outcome, exitStatus, log, runtime, startedNet, link, shutdowns>>

\* the X server process exits before it has created its socket
XephyrExit(s) ==
    /\ xephyr[s] = "launched"
    /\ xephyr' = [xephyr EXCEPT ![s] = "exited"]
    /\ UNCHANGED <<detailVars, config, pc, only, net, lock, observed, nspawn, xnum, shutdown, proc,
                   outcome, exitStatus, log, runtime, startedNet, link, xlive, shutdowns>>

\* Popen.returncode as start_xephyr reads it: nothing in start_xephyr calls
\* poll() or wait(), so the attribute keeps the value Popen gave it
XephyrReturncode(s) == None

\* lines 404-416: the wait loop has ended; publish the symbolic name
\* (os.symlink raises FileExistsError when the name exists)
xephyr_wait(s) ==
    /\ pc[s] = "xephyr_wait"
    /\ ~ (xnum[s] \notin xlive /\ XephyrReturncode(s) = None)
    /\ IF XephyrReturncode(s) # None
          THEN /\ ProcessExit(s, "fatal", 1)
               /\ UNCHANGED link
          ELSE IF link # 0
                  THEN /\ ProcessExit(s, "crashed", 1)
                       /\ UNCHANGED link
                  ELSE /\ link' = xnum[s]
                       /\ pc' = [pc EXCEPT ![s] = "nspawn"]
                       /\ xephyr' = [xephyr EXCEPT ![s] = IF @ = "launched" THEN @ ELSE "none"]
                       /\ UNCHANGED <<exitStatus, lock, net, observed, shutdown, proc, nspawn, xnum, log>>
    /\ UNCHANGED <<detailVars, config, only, outcome, runtime, startedNet, xlive, shutdowns>>

(* --------------------------- start_container --------------------------- *)
\* lines 536-540: the Popen of systemd-nspawn.  The runtime boots the machine
\* when none exists under that name; a second systemd-nspawn on the same
\* directory tree cannot boot it and exits
start_container(s) ==
    /\ pc[s] = "nspawn"
    /\ log' = Append1(s, "start")
    /\ IF runtime = "off"
          THEN /\ runtime' = "starting"
               /\ startedNet' = net[s]
               /\ nspawn' = [nspawn EXCEPT ![s] = "boot"]
               /\ shutdowns' = 0
          ELSE /\ nspawn' = [nspawn EXCEPT ![s] = "conflict"]
               /\ UNCHANGED <<runtime, startedNet, shutdowns>>
    /\ pc' = [pc EXCEPT ![s] = "poll"]
    /\ net' = [net EXCEPT ![s] = config.network]
    /\ xnum' = [xnum EXCEPT ![s] = IF xephyr[s] = "launched" THEN @ ELSE 0]
    /\ UNCHANGED <<detailVars, config, only, lock, observed, xephyr, shutdown, proc,
                   outcome, exitStatus, link, xlive>>

\* the machine reaches the state "running"
RuntimeReady ==
    /\ runtime = "starting"
    /\ runtime' = "running"
    /\ UNCHANGED <<detailVars, config, pc, only, net, lock, observed, nspawn, xephyr, xnum, shutdown,
                   proc, outcome, exitStatus, log, startedNet, link, xlive, shutdowns>>

\* a systemd-nspawn process exits: the one that lost the directory tree, or
\* the booting one when the boot fails
NspawnExit(s) ==
    /\ \/ /\ nspawn[s] = "conflict"
          /\ nspawn' = [nspawn EXCEPT ![s] = "exited_conflict"]
          /\ UNCHANGED <<runtime, startedNet>>
       \/ /\ nspawn[s] = "boot"
          /\ runtime = "starting"
          /\ nspawn' = [nspawn EXCEPT ![s] = "exited_boot"]
          /\ runtime' = "off"
          /\ startedNet' = "none"
    /\ UNCHANGED <<detailVars, config, pc, only, net, lock, observed, xephyr, xnum, shutdown, proc,
                   outcome, exitStatus, log, link, xlive, shutdowns>>

\* PollExited that never sees the exit of systemd-nspawn
PollExited_Never(s) == FALSE

\* line 546: proc.poll() is not None
PollExited(s) == nspawn[s] \in {"exited_conflict", "exited_boot"}

\* lines 541-549 and 596-598: the round of the poll loop that ends it, then
\* the window manager
poll_start(s) ==
    /\ pc[s] = "poll"
    /\ IF PollExited(s)
          THEN ProcessExit(s, "fatal", 1)
          ELSE /\ is_running
               /\ pc' = [pc EXCEPT ![s] = AfterStart(s)]
               /\ log' = IF config.guiPrivate /\ config.wm
                            THEN Append1(s, "window_manager") ELSE log
               /\ observed' = [observed EXCEPT ![s] = "unknown"]
               /\ nspawn' = [nspawn EXCEPT ![s] = "none"]
               /\ UNCHANGED <<exitStatus, lock, net, shutdown, proc, xephyr, xnum>>
    /\ UNCHANGED <<detailVars, config, only, outcome, runtime, startedNet, link, xlive, shutdowns>>

(* ----------------------- controlcode, lines 599-604 -------------------- *)
\* args["only"] == "start": controlcode returns and the process ends
return_start(s) ==
    /\ pc[s] = "return"
    /\ ProcessExit(s, "done", 0)
    /\ UNCHANGED <<detailVars, config, only, outcome, runtime, startedNet, link, xlive, shutdowns>>

(* ------------------------------- run_cmd ------------------------------- *)
\* line 607: subprocess.run of systemd-run starts the inner command
run_cmd(s) ==
    /\ pc[s] = "run_cmd"
    /\ DropStartRecord(s)
    /\ log' = [log EXCEPT ![s] = <<"cmd">>]
    /\ pc' = [pc EXCEPT ![s] = "wait_cmd"]
    /\ UNCHANGED <<detailVars, config, only, lock, shutdown, proc, outcome, exitStatus, runtime,
                   startedNet, link, xlive, shutdowns>>

\* the inner command completes: proc is the CompletedProcess
cmd_returns(s, code) ==
    /\ pc[s] = "wait_cmd"
    /\ proc' = [proc EXCEPT ![s] = code]
    /\ outcome' = [outcome EXCEPT ![s] = "returned"]
    /\ pc' = [pc EXCEPT ![s] = "end"]
    /\ UNCHANGED <<detailVars, config, only, net, lock, observed, nspawn, xephyr, xnum, shutdown,
                   exitStatus, log, runtime, startedNet, link, xlive, shutdowns>>

\* lines 608-611: KeyboardInterrupt during the wait; proc is the fake class
cmd_interrupted(s) ==
    /\ pc[s] = "wait_cmd"
    /\ proc' = [proc EXCEPT ![s] = InterruptCode]
    /\ outcome' = [outcome EXCEPT ![s] = "interrupted"]
    /\ pc' = [pc EXCEPT ![s] = "end"]
    /\ UNCHANGED <<detailVars, config, only, net, lock, observed, nspawn, xephyr, xnum, shutdown,
                   exitStatus, log, runtime, startedNet, link, xlive, shutdowns>>

\* subprocess.run raises (the launch failed): proc stays None, the finally
\* clause runs and the exception then leaves controlcode
cmd_launch_fails(s) ==
    /\ pc[s] = "run_cmd"
    /\ DropStartRecord(s)
    /\ log' = [log EXCEPT ![s] = <<>>]
    /\ outcome' = [outcome EXCEPT ![s] = "raised"]
    /\ pc' = [pc EXCEPT ![s] = "end"]
    /\ UNCHANGED <<detailVars, config, only, lock, shutdown, proc, exitStatus, runtime, startedNet,
                   link, xlive, shutdowns>>

(* ------------------- controlcode, the finally clause ------------------- *)
\* line 617: "end" commits the transaction, which releases the SHARED lock
end_transaction(s) ==
    /\ pc[s] = "end"
    /\ DropStartRecord(s)
    /\ log' = [log EXCEPT ![s] = <<>>]
    /\ lock' = [lock EXCEPT ![s] = "none"]
    /\ pc' = [pc EXCEPT ![s] = "begin_exclusive"]
    /\ UNCHANGED <<detailVars, config, only, shutdown, proc, outcome, exitStatus, runtime, startedNet,
                   link, xlive, shutdowns>>

\* ExclusiveGranted for "begin immediate": refused only by another writer
ExclusiveGranted_Immediate(s) == \A t \in Sessions \ {s} : lock[t] # "exclusive"

\* line 618: sqlite grants "begin exclusive" when no other connection holds
\* a lock on the file, and raises (database is locked) otherwise
ExclusiveGranted(s) == \A t \in Sessions \ {s} : lock[t] = "none"

\* ShutdownFlag with an except clause that leaves shutdown True
ShutdownFlag_AlwaysTrue(granted) == TRUE

\* lines 615-620: shutdown is True unless one of the two statements raised
ShutdownFlag(granted) == granted

\* ShutdownWanted without the test of args["only"]
ShutdownWanted_FlagOnly(s, flag) == flag

\* line 622
ShutdownWanted(s, flag) == flag \/ only[s] = "stop"

begin_exclusive(s) ==
    /\ pc[s] = "begin_exclusive"
    /\ log' = Append1(s, "begin_exclusive")
    /\ lock' = [lock EXCEPT ![s] = IF ExclusiveGranted(s) THEN "exclusive" ELSE "none"]
    /\ shutdown' = [shutdown EXCEPT ![s] =
                      IF ShutdownFlag(ExclusiveGranted(s)) THEN "True" ELSE "False"]
    /\ pc' = [pc EXCEPT ![s] =
                IF ShutdownWanted(s, ShutdownFlag(ExclusiveGranted(s)))
                   THEN (IF config.guiPrivate THEN "stop_xephyr" ELSE "stop_container")
                   ELSE "exit"]
    /\ UNCHANGED <<detailVars, config, only, net, observed, nspawn, xephyr, xnum, proc, outcome,
                   exitStatus, runtime, startedNet, link, xlive, shutdowns>>

(* ----------------------------- stop_xephyr ----------------------------- *)
\* get_xephyr_displaynum: the number the symbolic name points at, or -1
get_xephyr_displaynum == IF link = 0 THEN -1 ELSE link

\* remove the symbolic name; then SIGTERM to the pid in /tmp/.X<num>-lock,
\* which exists while that X server lives
stop_xephyr(s) ==
    /\ pc[s] = "stop_xephyr"
    /\ log' = Append1(s, "stop_xephyr")
    /\ link' = 0
    /\ xlive' = IF get_xephyr_displaynum < 0 THEN xlive
                ELSE xlive \ {get_xephyr_displaynum}
    /\ pc' = [pc EXCEPT ![s] = "stop_container"]
    /\ UNCHANGED <<detailVars, config, only, net, lock, observed, nspawn, xephyr, xnum, shutdown,
                   proc, outcome, exitStatus, runtime, startedNet, shutdowns>>

(* ---------------------------- stop_container --------------------------- *)
\* machinectl stop: the machine goes away and its systemd-nspawn exits
stop_container(s) ==
    /\ pc[s] = "stop_container"
    /\ log' = Append1(s, "stop_container")
    /\ runtime' = "off"
    /\ startedNet' = "none"
    /\ nspawn' = [t \in Sessions |-> IF nspawn[t] = "boot" THEN "exited_boot" ELSE nspawn[t]]
    /\ unspawn' = IF unspawn = "boot" THEN "exited_boot" ELSE unspawn
    /\ shutdowns' = IF only[s] = "none" THEN shutdowns + 1 ELSE shutdowns
    /\ pc' = [pc EXCEPT ![s] = "exit"]
    /\ UNCHANGED <<toolVars, startVars, displayVars, upc, ulog, ustatus, config, only, net, lock, observed, xephyr, xnum, shutdown, proc,
                   outcome, exitStatus, link, xlive>>

(* ----------------------- controlcode, lines 627-628 -------------------- *)
\* FinalStatus without the sys.exit of line 628
FinalStatus_Zero(s) == 0

\* sys.exit(proc.returncode) when proc is not None; otherwise controlcode
\* returns, or the exception of run_cmd ends the process with status 1
FinalStatus(s) ==
    IF proc[s] # None THEN SysExit(proc[s])
    ELSE IF outcome[s] = "raised" THEN 1 ELSE 0

exit_process(s) ==
    /\ pc[s] = "exit"
    /\ ProcessExit(s, "done", FinalStatus(s))
    /\ UNCHANGED <<detailVars, config, only, outcome, runtime, startedNet, link, xlive, shutdowns>>

(* ---------------------------- specification ---------------------------- *)
Next ==
    \/ \E s \in Sessions, c \in CommandLines : parse_args(s, c[1], c[2])
    \/ \E s \in Sessions : getdb(s)
    \/ \E s \in Sessions : check_running(s)
    \/ \E s \in Sessions : start_xephyr(s)
    \/ \E s \in Sessions : XephyrReady(s)
    \/ \E s \in Sessions : XephyrExit(s)
    \/ \E s \in Sessions : xephyr_wait(s)
    \/ \E s \in Sessions : start_container(s)
    \/ RuntimeReady
    \/ \E s \in Sessions : NspawnExit(s)
    \/ \E s \in Sessions : poll_start(s)
    \/ \E s \in Sessions : return_start(s)
    \/ \E s \in Sessions : run_cmd(s)
    \/ \E s \in Sessions, code \in ExitCodes : cmd_returns(s, code)
    \/ \E s \in Sessions : cmd_interrupted(s)
    \/ \E s \in Sessions : cmd_launch_fails(s)
    \/ \E s \in Sessions : end_transaction(s)
    \/ \E s \in Sessions : begin_exclusive(s)
    \/ \E s \in Sessions : stop_xephyr(s)
    \/ \E s \in Sessions : stop_container(s)
    \/ \E s \in Sessions : exit_process(s)

Spec == Init /\ [][Next]_vars

TypeOK ==
    /\ config \in Configs
    /\ pc \in [Sessions -> {"idle", "getdb", "is_running", "start_xephyr", "xephyr_wait",
                            "nspawn", "poll", "return", "run_cmd", "wait_cmd", "end",
                            "begin_exclusive", "stop_xephyr", "stop_container", "exit",
                            "done", "fatal", "crashed"}]
    /\ only \in [Sessions -> {"none", "start", "stop"}]
    /\ net \in [Sessions -> OverrideNetworks]
    /\ lock \in [Sessions -> {"none", "shared", "exclusive"}]
    /\ proc \in [Sessions -> ExitCodes \cup {None, InterruptCode}]
    /\ exitStatus \in [Sessions -> ExitCodes \cup {-1, 1, InterruptCode}]
    /\ outcome \in [Sessions -> {"none", "returned", "interrupted", "raised"}]
    /\ runtime \in {"off", "starting", "running"}

(* ============== the tool: __main__, create, makescript, genscript ====== *)
Subcommands == {"create", "makescript"}

\* the choices of --network in add_script_args
NetworkChoices == {"none", "on", "separate", "nat"}

\* the config dict before genscript has built one
NoConfig == [gui |-> FALSE, guiPrivate |-> FALSE, mesa |-> FALSE, wm |-> TRUE,
             network |-> "on"]

\* the command line as argparse returns it, and two facts of the file system:
\* whether the control script exists already, whether the folder is a file
ToolInit ==
    /\ options \in [sub : Subcommands, gui : BOOLEAN, gui_private : BOOLEAN,
                    mesa : BOOLEAN, network : NetworkChoices,
                    script_exists : BOOLEAN, folder_isfile : BOOLEAN]
    /\ toolpc = "parsed"
    /\ config = NoConfig
    /\ ControlUnused /\ StartUnused /\ DisplayUnused /\ UpdateUnused

\* lines 871-874, then args.func(args)
main_validate ==
    /\ toolpc = "parsed"
    /\ options' = [options EXCEPT !.gui = options.gui \/ options.gui_private]
    /\ toolpc' = IF options.network = "on" /\ options.gui_private
                    THEN "parser_error" ELSE options.sub
    /\ UNCHANGED <<config, controlVars, startVars, displayVars, updateVars>>

\* create, lines 87-89 and 120-122
create ==
    /\ toolpc = "create"
    /\ IF options.script_exists
          THEN toolpc' = "sys_exit" /\ UNCHANGED options
          ELSE /\ options' = [options EXCEPT !.gui = options.gui \/ options.mesa]
               /\ toolpc' = "debootstrap"
    /\ UNCHANGED <<config, controlVars, startVars, displayVars, updateVars>>

\* create, lines 141-226: debootstrap fails, or the chroot is made and set up
debootstrap(ok) ==
    /\ toolpc = "debootstrap"
    /\ toolpc' = IF ok THEN "genscript" ELSE "sys_exit"
    /\ UNCHANGED <<options, config, controlVars, startVars, displayVars, updateVars>>

\* makescript, lines 229-235
makescript ==
    /\ toolpc = "makescript"
    /\ toolpc' = IF options.folder_isfile THEN "sys_exit" ELSE "genscript"
    /\ UNCHANGED <<options, config, controlVars, startVars, displayVars, updateVars>>

\* the config dict of genscript, lines 249-266
ScriptConfig(o) ==
    [gui |-> o.gui, guiPrivate |-> o.gui_private, mesa |-> o.mesa, wm |-> TRUE,
     network |-> o.network]

\* genscript, lines 244-266
genscript ==
    /\ toolpc = "genscript"
    /\ IF options.script_exists
          THEN toolpc' = "sys_exit" /\ UNCHANGED config
          ELSE /\ config' = ScriptConfig(options)
               /\ toolpc' = "generated"
    /\ UNCHANGED <<options, controlVars, startVars, displayVars, updateVars>>

ToolNext ==
    \/ main_validate
    \/ create
    \/ \E ok \in BOOLEAN : debootstrap(ok)
    \/ makescript
    \/ genscript

ToolSpec == ToolInit /\ [][ToolNext]_vars

(* ========= one call of start_container, alone or from do_apt_stuff ===== *)
\* every value config["network"] can hold: the --network choices of the tool
\* and the values parse_args accepts after ++network
AllNetworks == NetworkChoices \cup OverrideNetworks

\* the config dicts of the call; gui-private scripts have gui (line 872)
StartConfigs ==
    { c \in [gui : BOOLEAN, guiPrivate : BOOLEAN, mesa : BOOLEAN, sound : BOOLEAN,
             dbus : BOOLEAN, webcam : BOOLEAN, bind : BOOLEAN, wm : {TRUE},
             network : AllNetworks] : c.guiPrivate => c.gui }

\* entries of the output of "ip -j link show"
Eth0 == [ifname |-> "eth0", up |-> TRUE, loopback |-> FALSE, netnsid |-> FALSE]
Eth1 == [ifname |-> "eth1", up |-> FALSE, loopback |-> FALSE, netnsid |-> FALSE]
Wlan0 == [ifname |-> "wlan0", up |-> TRUE, loopback |-> FALSE, netnsid |-> FALSE]
Lo == [ifname |-> "lo", up |-> TRUE, loopback |-> TRUE, netnsid |-> FALSE]
Veth0 == [ifname |-> "veth0", up |-> TRUE, loopback |-> FALSE, netnsid |-> TRUE]

HostInterfaces == { <<Lo>>, <<Lo, Eth0, Eth1, Veth0, Wlan0>> }

\* DBUS_SESSION_BUS_ADDRESS: a unix:path= address, another address, not set
BusAddresses == {"unix", "tcp", "unset"}

StartInit ==
    /\ config \in StartConfigs
    /\ for_update \in BOOLEAN
    /\ environ \in [pulse : BOOLEAN, bus : BusAddresses, interfaces : HostInterfaces,
                    running : BOOLEAN]
    /\ ~for_update => ~environ.running
    /\ spc = IF for_update THEN "do_apt_stuff" ELSE "binds"
    /\ cmd = <<>>
    /\ requests = <<>>
    /\ ControlUnused /\ ToolUnused /\ DisplayUnused /\ UpdateUnused

StartFrame == UNCHANGED <<config, for_update, environ, controlVars, toolVars, displayVars,
                           updateVars>>

\* do_apt_stuff, lines 719-722
do_apt_stuff ==
    /\ spc = "do_apt_stuff"
    /\ spc' = IF environ.running THEN "sys_exit" ELSE "binds"
    /\ UNCHANGED <<cmd, requests>>
    /\ StartFrame

\* Wanted without the test of for_update
Wanted_Always(toggle) == toggle

\* "if not for_update and config[...]"
Wanted(toggle) == ~for_update /\ toggle

\* lines 466-475
bind_args ==
    /\ spc = "binds"
    /\ cmd' = IF Wanted(config.bind) THEN Append(cmd, <<"--bind", "folder">>) ELSE cmd
    /\ spc' = "gui"
    /\ UNCHANGED requests
    /\ StartFrame

\* lines 476-488; start_xephyr launches Xephyr and publishes the symbolic name
gui_args ==
    /\ spc = "gui"
    /\ cmd' = IF Wanted(config.gui) THEN Append(cmd, <<"--bind", "X">>) ELSE cmd
    /\ requests' = IF Wanted(config.gui) /\ config.guiPrivate
                      THEN requests \o <<"xephyr", "symlink">> ELSE requests
    /\ spc' = "mesa"
    /\ StartFrame

\* lines 490-495
mesa_args ==
    /\ spc = "mesa"
    /\ cmd' = IF Wanted(config.mesa) THEN Append(cmd, <<"--bind", "dri">>) ELSE cmd
    /\ spc' = "sound"
    /\ UNCHANGED requests
    /\ StartFrame

\* lines 496-500
sound_args ==
    /\ spc = "sound"
    /\ IF Wanted(config.sound)
          THEN IF environ.pulse
                  THEN cmd' = Append(cmd, <<"--bind", "pulse">>) /\ spc' = "network"
                  ELSE spc' = "AssertionError_sound" /\ UNCHANGED cmd
          ELSE spc' = "network" /\ UNCHANGED cmd
    /\ UNCHANGED requests
    /\ StartFrame

\* lines 514-515
Qualifies(netif) == netif.up /\ ~netif.loopback /\ ~netif.netnsid

Macvlan(netif) == <<"--network-macvlan", netif.ifname>>

RECURSIVE MacvlanArgs(_)
MacvlanArgs(ifs) ==
    IF ifs = <<>> THEN <<>>
    ELSE (IF Qualifies(Head(ifs)) THEN <<Macvlan(Head(ifs))>> ELSE <<>>)
            \o MacvlanArgs(Tail(ifs))

\* lines 501-516
network_args ==
    /\ spc = "network"
    /\ IF for_update \/ config.network = "on"
          THEN spc' = "webcam" /\ UNCHANGED cmd
          ELSE IF config.network = "off"
          THEN spc' = "webcam" /\ cmd' = Append(cmd, <<"-p">>)
          ELSE IF config.network = "nat"
          THEN spc' = "webcam" /\ cmd' = Append(cmd, <<"--network-veth">>)
          ELSE IF config.network = "separate"
          THEN spc' = "webcam" /\ cmd' = cmd \o MacvlanArgs(environ.interfaces)
          ELSE spc' = "AssertionError_network" /\ UNCHANGED cmd
    /\ UNCHANGED requests
    /\ StartFrame

\* lines 517-526
webcam_args ==
    /\ spc = "webcam"
    /\ cmd' = IF Wanted(config.webcam) THEN Append(cmd, <<"--bind", "v4l">>) ELSE cmd
    /\ spc' = "dbus"
    /\ UNCHANGED requests
    /\ StartFrame

\* lines 528-532
dbus_args ==
    /\ spc = "dbus"
    /\ IF Wanted(config.dbus)
          THEN IF environ.bus = "unset"
                  THEN spc' = "KeyError_dbus" /\ UNCHANGED cmd
                  ELSE IF environ.bus = "unix"
                  THEN cmd' = Append(cmd, <<"--bind", "dbus">>) /\ spc' = "Popen"
                  ELSE spc' = "AssertionError_dbus" /\ UNCHANGED cmd
          ELSE spc' = "Popen" /\ UNCHANGED cmd
    /\ UNCHANGED requests
    /\ StartFrame

\* lines 534-540: config["nspawn-extra-args"] is [] in a generated script
Popen_nspawn ==
    /\ spc = "Popen"
    /\ requests' = Append(requests, "start")
    /\ spc' = "poll"
    /\ UNCHANGED cmd
    /\ StartFrame

\* lines 541-549: systemd-nspawn has exited, or the machine is running
poll_nspawn(exited) ==
    /\ spc = "poll"
    /\ spc' = IF exited THEN "sys_exit"
              ELSE IF for_update THEN "apt_update" ELSE "returned"
    /\ UNCHANGED <<cmd, requests>>
    /\ StartFrame

\* do_apt_stuff, line 723
apt_update ==
    /\ spc = "apt_update"
    /\ requests' = Append(requests, "apt update")
    /\ spc' = "apt_upgrade"
    /\ UNCHANGED cmd
    /\ StartFrame

\* do_apt_stuff, line 724
apt_upgrade ==
    /\ spc = "apt_upgrade"
    /\ requests' = Append(requests, "apt upgrade")
    /\ spc' = "stop_container"
    /\ UNCHANGED cmd
    /\ StartFrame

\* do_apt_stuff, line 726
apt_stop_container ==
    /\ spc = "stop_container"
    /\ requests' = Append(requests, "stop_container")
    /\ spc' = "returned"
    /\ UNCHANGED cmd
    /\ StartFrame

StartNext ==
    \/ do_apt_stuff
    \/ bind_args
    \/ gui_args
    \/ mesa_args
    \/ sound_args
    \/ network_args
    \/ webcam_args
    \/ dbus_args
    \/ Popen_nspawn
    \/ \E exited \in BOOLEAN : poll_nspawn(exited)
    \/ apt_update
    \/ apt_upgrade
    \/ apt_stop_container

StartSpec == StartInit /\ [][StartNext]_vars

(* ====== one private display: start_xephyr, the X server, stop_xephyr ==== *)
\* number of calls of stop_xephyr
MaxCalls == 2

\* last bytes of the SHA-1 digest of the names (any byte can occur)
Digests == {0, 1, 88, 89, 177, 255}

\* the displays that may be taken when start_xephyr is called
Window == {10, 11, 12, 87, 98, 99}

DisplayInit ==
    /\ config = [guiPrivate |-> TRUE, wm |-> TRUE, network |-> "nat"]
    /\ digest \in Digests
    /\ sockets \in SUBSET Window
    /\ num = 0
    /\ xpc = "idle"
    /\ symlink = 0
    /\ xserver = "none"
    /\ calls = 0
    /\ signals = 0
    /\ raised = "none"
    /\ stopnum = 0
    /\ ControlUnused /\ ToolUnused /\ StartUnused /\ UpdateUnused

DisplayFrame == UNCHANGED <<config, digest, controlVars, toolVars, startVars, updateVars>>

\* line 379
Candidate(byte) == BaseDisplay + (byte % 89)

\* Occupied that finds every number free
Occupied_Never(n) == FALSE

\* line 380: os.path.exists of /tmp/.X11-unix/X<n>
Occupied(n) == n \in sockets

\* start_xephyr, lines 376-379: remove the name, compute the candidate
sx_candidate ==
    /\ xpc = "idle"
    /\ symlink' = 0
    /\ num' = Candidate(digest)
    /\ xpc' = "probe"
    /\ UNCHANGED <<sockets, xserver, calls, signals, raised, stopnum>>
    /\ DisplayFrame

\* lines 380-381: one test of the while loop
sx_probe ==
    /\ xpc = "probe"
    /\ IF Occupied(num)
          THEN num' = num + 1 /\ UNCHANGED xpc
          ELSE xpc' = "Popen" /\ UNCHANGED num
    /\ UNCHANGED <<sockets, symlink, xserver, calls, signals, raised, stopnum>>
    /\ DisplayFrame

\* line 402
sx_Popen ==
    /\ xpc = "Popen"
    /\ xserver' = "starting"
    /\ xpc' = "wait"
    /\ UNCHANGED <<sockets, num, symlink, calls, signals, raised, stopnum>>
    /\ DisplayFrame

\* the X server creates /tmp/.X<num>-lock and its socket
XServerUp ==
    /\ xserver = "starting"
    /\ xserver' = "live"
    /\ sockets' = sockets \cup {num}
    /\ UNCHANGED <<num, xpc, symlink, calls, signals, raised, stopnum>>
    /\ DisplayFrame

\* the X server exits by itself (start failure, window closed, SIGTERM
\* handled) and removes its lock file and socket
XServerExit ==
    /\ xserver \in {"starting", "live", "terminating"}
    /\ xserver' = "gone"
    /\ sockets' = IF xserver = "starting" THEN sockets ELSE sockets \ {num}
    /\ UNCHANGED <<num, xpc, symlink, calls, signals, raised, stopnum>>
    /\ DisplayFrame

\* the X server dies without cleaning up (SIGKILL, crash): lock file and
\* socket stay
XServerKilled ==
    /\ xserver = "live"
    /\ xserver' = "killed"
    /\ UNCHANGED <<sockets, num, xpc, symlink, calls, signals, raised, stopnum>>
    /\ DisplayFrame

\* lines 404-416: the socket exists, publish the symbolic name
sx_symlink ==
    /\ xpc = "wait"
    /\ num \in sockets
    /\ symlink' = num
    /\ xpc' = "allocated"
    /\ UNCHANGED <<sockets, num, xserver, calls, signals, raised, stopnum>>
    /\ DisplayFrame

\* get_xephyr_displaynum as stop_xephyr calls it
DisplayNum == IF symlink = 0 THEN -1 ELSE symlink

\* /tmp/.X<n>-lock exists
PidFile(n) == n = num /\ xserver \in {"live", "terminating", "killed"}

\* the pid in the lock file names a process
PidAlive == xserver \in {"live", "terminating"}

\* NameAfterRemove that leaves the symbolic name in place
NameAfterRemove_Kept == symlink

\* lines 439-442: os.remove of the symbolic name, errors ignored
NameAfterRemove == 0

\* stop_xephyr, lines 434-442: resolve the number, remove the name, return
\* when there was no name
stop_display ==
    /\ xpc \in {"idle", "allocated", "stopped"}
    /\ calls < MaxCalls
    /\ raised = "none"
    /\ symlink' = NameAfterRemove
    /\ IF DisplayNum < 0
          THEN /\ calls' = calls + 1
               /\ xpc' = "stopped"
               /\ UNCHANGED stopnum
          ELSE /\ stopnum' = DisplayNum
               /\ xpc' = "pidfile"
               /\ UNCHANGED calls
    /\ UNCHANGED <<sockets, num, xserver, signals, raised>>
    /\ DisplayFrame

\* stop_xephyr, lines 444-453: read the pid file, send SIGTERM
stop_signal ==
    /\ xpc = "pidfile"
    /\ calls' = calls + 1
    /\ xpc' = "stopped"
    /\ stopnum' = 0
    /\ IF ~PidFile(stopnum)
          THEN UNCHANGED <<xserver, signals, raised>>
          ELSE IF PidAlive
                  THEN /\ signals' = signals + 1
                       /\ xserver' = "terminating"
                       /\ UNCHANGED raised
                  ELSE /\ raised' = "ProcessLookupError"
                       /\ UNCHANGED <<xserver, signals>>
    /\ UNCHANGED <<sockets, num, symlink>>
    /\ DisplayFrame

\* controlcode, lines 624-625: stop_container follows the return of
\* stop_xephyr
stop_after_display ==
    /\ xpc = "stopped"
    /\ raised = "none"
    /\ xpc' = "stop_container"
    /\ UNCHANGED <<sockets, num, symlink, xserver, calls, signals, raised, stopnum>>
    /\ DisplayFrame

DisplayNext ==
    \/ sx_candidate
    \/ sx_probe
    \/ sx_Popen
    \/ XServerUp
    \/ XServerExit
    \/ XServerKilled
    \/ sx_symlink
    \/ stop_display
    \/ stop_signal
    \/ stop_after_display

DisplaySpec == DisplayInit /\ [][DisplayNext]_vars

(* ======== one apt-update invocation running beside the sessions ======== *)
UpdateInit == ControlInit /\ ToolUnused /\ StartUnused /\ DisplayUnused
                 /\ upc = "idle" /\ unspawn = "none" /\ ulog = <<>> /\ ustatus = -1

UpdateFrame == UNCHANGED <<config, toolVars, startVars, displayVars, pc, only, net, lock,
                           observed, xephyr, xnum, shutdown, proc, outcome, exitStatus,
                           log, link, xlive>>

\* controlcode, lines 584-591: ++aptupdate leads to do_apt_stuff before getdb
u_controlcode ==
    /\ upc = "idle"
    /\ upc' = "is_running"
    /\ UNCHANGED <<unspawn, ulog, ustatus, nspawn, runtime, startedNet, shutdowns>>
    /\ UpdateFrame

\* UpdateSkipped that never sees the machine running
UpdateSkipped_Never == FALSE

\* do_apt_stuff, line 719: is_running(config)
UpdateSkipped == runtime = "running"

\* do_apt_stuff, lines 718-721: sys.exit with a message when the machine runs
u_is_running ==
    /\ upc = "is_running"
    /\ IF UpdateSkipped
          THEN upc' = "skipped" /\ ustatus' = 1
          ELSE upc' = "nspawn" /\ UNCHANGED ustatus
    /\ UNCHANGED <<unspawn, ulog, nspawn, runtime, startedNet, shutdowns>>
    /\ UpdateFrame

\* do_apt_stuff line 722, start_container lines 456-540 with for_update: the
\* Popen of systemd-nspawn, on the host network (line 502)
u_start_container ==
    /\ upc = "nspawn"
    /\ ulog' = Append(ulog, "start")
    /\ IF runtime = "off"
          THEN /\ runtime' = "starting"
               /\ startedNet' = "on"
               /\ unspawn' = "boot"
               /\ shutdowns' = 0
          ELSE /\ unspawn' = "conflict"
               /\ UNCHANGED <<runtime, startedNet, shutdowns>>
    /\ upc' = "poll"
    /\ UNCHANGED <<ustatus, nspawn>>
    /\ UpdateFrame

\* the systemd-nspawn of the apt-update process exits: it lost the directory
\* tree, or its boot fails
u_NspawnExit ==
    /\ \/ /\ unspawn = "conflict"
          /\ unspawn' = "exited_conflict"
          /\ UNCHANGED <<runtime, startedNet>>
       \/ /\ unspawn = "boot"
          /\ runtime = "starting"
          /\ unspawn' = "exited_boot"
          /\ runtime' = "off"
          /\ startedNet' = "none"
    /\ UNCHANGED <<upc, ulog, ustatus, nspawn, shutdowns>>
    /\ UpdateFrame

\* start_container, lines 541-549: the round of the poll loop that ends it
u_poll ==
    /\ upc = "poll"
    /\ IF unspawn \in {"exited_conflict", "exited_boot"}
          THEN upc' = "fatal" /\ ustatus' = 1
          ELSE /\ runtime = "running"
               /\ upc' = "apt_update"
               /\ UNCHANGED ustatus
    /\ UNCHANGED <<unspawn, ulog, nspawn, runtime, startedNet, shutdowns>>
    /\ UpdateFrame

\* do_apt_stuff, line 723: run_cmd(["apt", "update"]), its result unused
u_apt_update ==
    /\ upc = "apt_update"
    /\ ulog' = Append(ulog, "apt update")
    /\ upc' = "apt_upgrade"
    /\ UNCHANGED <<unspawn, ustatus, nspawn, runtime, startedNet, shutdowns>>
    /\ UpdateFrame

\* do_apt_stuff, line 724: run_cmd(["apt", "upgrade"]), its result unused
u_apt_upgrade ==
    /\ upc = "apt_upgrade"
    /\ ulog' = Append(ulog, "apt upgrade")
    /\ upc' = "stop_container"
    /\ UNCHANGED <<unspawn, ustatus, nspawn, runtime, startedNet, shutdowns>>
    /\ UpdateFrame

\* do_apt_stuff, line 726: stop_container, with no lock taken or tested; then
\* controlcode returns
u_stop_container ==
    /\ upc = "stop_container"
    /\ ulog' = Append(ulog, "stop_container")
    /\ runtime' = "off"
    /\ startedNet' = "none"
    /\ nspawn' = [t \in Sessions |-> IF nspawn[t] = "boot" THEN "exited_boot" ELSE nspawn[t]]
    /\ unspawn' = IF unspawn = "boot" THEN "exited_boot" ELSE unspawn
    /\ upc' = "done"
    /\ ustatus' = 0
    /\ UNCHANGED shutdowns
    /\ UpdateFrame

UpdateNext ==
    \/ Next
    \/ u_controlcode
    \/ u_is_running
    \/ u_start_container
    \/ u_NspawnExit
    \/ u_poll
    \/ u_apt_update
    \/ u_apt_upgrade
    \/ u_stop_container

UpdateSpec == UpdateInit /\ [][UpdateNext]_vars

(* ------------------------------- claims -------------------------------- *)
\* process s issues the request `what` in this step
IssuedNow(s, what) ==
    /\ Len(log'[s]) = Len(log[s]) + 1
    /\ log'[s][Len(log'[s])] = what

\* registered (shared claim taken) and inner command not yet finished
ActivePcs == {"is_running", "start_xephyr", "xephyr_wait", "nspawn", "poll",
              "return", "run_cmd", "wait_cmd"}

\* C1: a run-command session issues the display teardown or the stop request
\* only after its exclusive acquisition succeeded, and at that moment no other
\* session holds a shared claim or is still active.
C1_NoShutdownUnderSharedClaim ==
    [][\A s \in Sessions :
          (only[s] = "none" /\ (IssuedNow(s, "stop_xephyr") \/ IssuedNow(s, "stop_container")))
             => /\ shutdown[s] = "True"
                /\ \A t \in Sessions \ {s} : lock[t] # "shared" /\ pc[t] \notin ActivePcs]_vars

\* a run-command session failed its exclusive acquisition while a sibling runs
\* its command, and leaves without having shut anything down
C1_Witness ==
    \E s, t \in Sessions :
        /\ s # t /\ only[s] = "none" /\ only[t] = "none"
        /\ pc[s] = "exit" /\ shutdown[s] = "False"
        /\ ~Issued(s, "stop_container") /\ ~Issued(s, "stop_xephyr")
        /\ pc[t] = "wait_cmd" /\ lock[t] = "shared" /\ runtime = "running"

\* C2: a start request is issued only while the container is neither starting
\* nor running, so concurrent sessions issue one start request between them.
C2_SingleStartRequest ==
    [][\A s \in Sessions : IssuedNow(s, "start") => runtime = "off"]_vars

\* C3: no session ends with a provisioning failure because its systemd-nspawn
\* lost against the start of a sibling session.
C3_NoFailureFromSiblingStart ==
    [][\A s \in Sessions :
          (pc[s] = "poll" /\ pc'[s] = "fatal") => nspawn[s] # "exited_conflict"]_vars

\* C4: within one running period at most one run-command session issues the
\* stop request.
C4_AtMostOneShutdown == shutdowns <= 1

\* C5: when only run-command sessions were invoked and none of them is in
\* progress any more, the container is not left running.
C5_StoppedAfterLastSession ==
    (\A s \in Sessions : pc[s] \in {"idle", "done", "fatal", "crashed"} /\ only[s] = "none")
        => runtime # "running"

\* C6: a session holds the exclusive lock, or had "begin exclusive" succeed,
\* only while no other session holds any lock: never an exclusive holder
\* together with a shared holder, never two exclusive holders.
C6_LockExclusion ==
    \A s \in Sessions :
        (lock[s] = "exclusive" \/ shutdown[s] = "True")
           => /\ lock[s] = "exclusive"
              /\ \A t \in Sessions \ {s} : lock[t] = "none"

\* one session holds the exclusive lock while the exclusive attempt of another
\* has failed
C6_Witness ==
    \E s, t \in Sessions :
        s # t /\ lock[s] = "exclusive" /\ shutdown[t] = "False" /\ pc[t] = "exit"

C8_NoReprovisioning ==
    \A s \in Sessions :
        observed[s] = "running"
           => /\ ~Issued(s, "start") /\ ~Issued(s, "xephyr") /\ ~Issued(s, "window_manager")
              /\ nspawn[s] = "none" /\ xephyr[s] = "none"
              /\ pc[s] \notin {"start_xephyr", "xephyr_wait", "nspawn", "poll"}

\* a session whose network mode differs from the one the running machine was
\* started with has skipped the start and is about to run its command
C8_Witness ==
    \E s \in Sessions :
        /\ observed[s] = "running" /\ pc[s] = "run_cmd"
        /\ runtime = "running" /\ net[s] # startedNet

\* a start-only process has issued nothing but provisioning requests
StartOnlyQuiet ==
    \A s \in Sessions :
        only[s] = "start"
           => /\ \A w \in {"cmd", "begin_exclusive", "stop_xephyr", "stop_container"} :
                    ~Issued(s, w)
              /\ pc[s] \notin {"run_cmd", "wait_cmd", "end", "begin_exclusive",
                               "stop_xephyr", "stop_container", "exit"}

\* C9: a start-only invocation runs no command, makes no exclusive attempt and
\* issues no stop; it returns 0 and its return leaves the container as it is
\* (running, unless a stop-only invocation forced it down).
C9_StartOnly ==
    [][/\ StartOnlyQuiet
       /\ StartOnlyQuiet'
       /\ \A s \in Sessions :
             (only[s] = "start" /\ pc[s] = "return" /\ pc'[s] = "done")
                => /\ runtime' = runtime
                   /\ exitStatus'[s] = 0
                   /\ runtime # "running"
                        => \E t \in Sessions : only[t] = "stop" /\ pc[t] # "idle"]_vars

\* the start-only process has exited, no session is left and the container runs
C9_Witness ==
    \E s \in Sessions :
        /\ only[s] = "start" /\ pc[s] = "done" /\ exitStatus[s] = 0
        /\ \A t \in Sessions : lock[t] = "none" /\ pc[t] \in {"idle", "done"}
        /\ runtime = "running"

C11_PrivateGuiNeverSharedNetwork ==
    (config.guiPrivate /\ runtime # "off") => startedNet # "on"

\* C12: in every config the tool generates, by create or by makescript, gui is
\* true whenever gui-private or mesa is true.
C12_GuiImplied ==
    toolpc = "generated" => ((config.guiPrivate \/ config.mesa) => config.gui)

\* the network directives of a command line
NetworkPart(c) ==
    SelectSeq(c, LAMBDA d : d[1] \in {"-p", "--network-veth", "--network-macvlan"})

\* number of entries of c equal to d
Count(c, d) == Cardinality({i \in 1..Len(c) : c[i] = d})

\* the directives the four modes stand for: shared none, isolated one
\* private-network, NAT one veth, bridged one macvlan per qualifying interface
ModeApplied(network, ifs, c) ==
    CASE network = "on" -> c = <<>>
      [] network \in {"off", "none"} -> c = << <<"-p">> >>
      [] network = "nat" -> c = << <<"--network-veth">> >>
      [] network = "separate" ->
            /\ \A i \in 1..Len(c) : c[i][1] = "--network-macvlan"
            /\ \A j \in 1..Len(ifs) :
                  Count(c, <<"--network-macvlan", ifs[j].ifname>>)
                     = (IF ifs[j].up /\ ~ifs[j].loopback /\ ~ifs[j].netnsid THEN 1 ELSE 0)
            /\ \A i \in 1..Len(c) : \E j \in 1..Len(ifs) : c[i][2] = ifs[j].ifname

\* C13: for every accepted network value the construction of the command
\* line gets past the network block without an error, and the network
\* directives on it are exactly those of the value's mode.
C13_NetworkModeApplied ==
    /\ spc # "AssertionError_network"
    /\ (~for_update /\ spc \in {"webcam", "dbus", "Popen", "poll", "returned"})
          => ModeApplied(config.network, environ.interfaces, NetworkPart(cmd))

\* C14: when the sound or the dbus precondition fails, nothing has been
\* requested: no Xephyr launched, no symbolic name published, no start.
C14_NoPartialStart ==
    spc \in {"AssertionError_sound", "AssertionError_dbus", "KeyError_dbus"}
        => requests = <<>>

\* C15: the number start_xephyr launches the server on is not occupied; it is
\* the smallest unoccupied number from c = 10 + (digest byte mod 89) upwards,
\* and c lies in 10..98.
C15_FreeDisplay ==
    xpc = "Popen"
       => /\ 10 + (digest % 89) \in 10..98
          /\ num >= 10 + (digest % 89)
          /\ num \notin sockets
          /\ \A m \in (10 + (digest % 89))..(num - 1) : m \in sockets

\* the candidate 98 and its successor are taken: the server goes to 100
C15_Witness ==
    /\ xpc = "Popen" /\ digest = 177 /\ num = 100
    /\ {98, 99} \subseteq sockets

\* C16: every call of stop_xephyr returns without an error, and a call that
\* follows another finds no symbolic name and changes nothing: the name stays
\* absent and no signal is sent.
C16_TeardownIdempotent ==
    [][calls' = calls + 1
          => /\ raised' = "none"
             /\ calls >= 1 => (symlink = 0 /\ symlink' = 0 /\ signals' = signals)]_vars

\* the requests of a complete apt-update run
UpdateRequests == <<"start", "apt update", "apt upgrade", "stop_container">>

\* C17: an apt-update call puts no bind, gui, mesa, sound, network, webcam or
\* dbus directive on the command line whatever the config says, and issues
\* start, apt update, apt upgrade, stop in this order.
C17_AptUpdate ==
    for_update
       => /\ cmd = <<>>
          /\ Len(requests) <= Len(UpdateRequests)
          /\ requests = SubSeq(UpdateRequests, 1, Len(requests))
          /\ spc = "returned" => requests = UpdateRequests

\* a complete apt-update run of a script with every toggle on and NAT network
C17_Witness ==
    /\ for_update /\ spc = "returned" /\ requests = UpdateRequests
    /\ config.network = "nat" /\ config.guiPrivate /\ config.sound /\ config.dbus
    /\ config.mesa /\ config.webcam /\ config.bind
    /\ ~environ.pulse /\ environ.bus = "tcp"

\* C18: a stop-only invocation issues no start request and launches no private
\* display server, also when it finds the container not running.
C18_StopOnlyNeverStarts ==
    \A s \in Sessions :
        only[s] = "stop" => ~Issued(s, "start") /\ ~Issued(s, "xephyr")

\* C19: at most one private display server of the container is alive at any
\* time.
C19_OneLiveDisplay == Cardinality(xlive) <= 1

\* no session is inside the start step or the shutdown step
Quiescent ==
    \A s \in Sessions :
        pc[s] \notin {"start_xephyr", "xephyr_wait", "nspawn", "poll",
                      "stop_xephyr", "stop_container"}

\* C20: for a gui-private container, outside a start or shutdown step, the
\* symbolic name exists only while the container is running and then names a
\* live display server.
C20_LinkOnlyWhileRunning ==
    (config.guiPrivate /\ Quiescent /\ link # 0)
        => (runtime = "running" /\ link \in xlive)

\* C21: when the Xephyr process has exited without creating its socket, the
\* wait loop of start_xephyr can end (the process then aborts): the wait never
\* goes on for ever after the exit.
C21_WaitEndsOnExit ==
    \A s \in Sessions :
        (pc[s] = "xephyr_wait" /\ xephyr[s] = "exited") => ENABLED xephyr_wait(s)

\* C22: the start poll ends only on "running" or on the exit of
\* systemd-nspawn; on the exit the process ends with status 1 and has issued
\* nothing more: no second start, no window manager, no inner command.
C22_StartPoll ==
    [][\A s \in Sessions :
          /\ (pc[s] = "poll" /\ pc'[s] # "poll")
                => IF nspawn[s] \in {"exited_conflict", "exited_boot"}
                      THEN /\ pc'[s] = "fatal" /\ exitStatus'[s] = 1
                           /\ \A w \in {"start", "window_manager", "cmd"} : ~IssuedNow(s, w)
                      ELSE runtime = "running" /\ pc'[s] \in {"return", "run_cmd", "end"}
          /\ pc[s] = "fatal" => (pc'[s] = "fatal" /\ log'[s] = <<>> /\ outcome'[s] = "none")]_vars

\* the only invocation has ended with status 1 after its systemd-nspawn exited
\* during the boot; no command was run and the container is off
C22_Witness ==
    \E s \in Sessions :
        /\ pc[s] = "fatal" /\ exitStatus[s] = 1 /\ only[s] = "none" /\ outcome[s] = "none"
        /\ runtime = "off"
        /\ \A t \in Sessions \ {s} : pc[t] = "idle"

\* C23: the SIGTERM of stop_xephyr is sent in a state where the symbolic name
\* is already absent, the name stays absent once a signal has been sent, and
\* the stop-container request comes after a completed stop_xephyr.
C23_NameRemovedBeforeSignal ==
    /\ signals > 0 => symlink = 0
    /\ (xpc = "pidfile" /\ stopnum > 0) => symlink = 0
    /\ xpc = "stop_container" => (calls >= 1 /\ symlink = 0 /\ raised = "none")

C23_Witness ==
    /\ xpc = "stop_container"
    /\ signals = 1
    /\ xserver = "terminating"
    /\ symlink = 0

\* C24: the apt-update process issues its stop-container request only in a
\* state where no session holds a shared claim on the container.
C24_UpdateNeverStopsUsedContainer ==
    [][(upc = "stop_container" /\ upc' = "done")
          => \A s \in Sessions : lock[s] # "shared"]_vars

\* C25: an apt-update process that finds the machine running leaves through
\* sys.exit with status 1 having issued no start, no command and no stop, and
\* issues nothing afterwards.
C25_RunningSkipsUpdate ==
    [][/\ (upc = "is_running" /\ runtime = "running" /\ upc' # upc)
             => /\ upc' = "skipped" /\ ustatus' = 1 /\ ulog' = <<>>
                /\ UNCHANGED <<runtime, startedNet, nspawn, unspawn>>
       /\ upc = "skipped"
             => (upc' = "skipped" /\ ustatus' = 1 /\ ulog' = <<>> /\ unspawn' = "none")]_vars

\* the apt-update process was skipped while a session runs its command in the
\* running container
C25_Witness ==
    /\ upc = "skipped"
    /\ ustatus = 1
    /\ ulog = <<>>
    /\ runtime = "running"
    /\ \E s \in Sessions : pc[s] = "wait_cmd" /\ lock[s] = "shared"

============================================================================
